---- MODULE Spec2Model ----
(***************************************************************************)
(* Model of github.com/InjectiveLabs/metrics: the process-wide client      *)
(* registry (client, config, tracer, traceProvider), the registry          *)
(* operations Init / Disable / Close, the reporting facade, and the        *)
(* function-instrumentation engine (reportFunc, reportTiming,              *)
(* ReportClosureFuncTiming and the wrappers built on them) with its        *)
(* per-invocation watchdog goroutine.                                      *)
(*                                                                         *)
(* Every goroutine step that reads or writes shared state is one action.   *)
(* A reader's critical section (RLock ... RUnlock) is one atomic step; the *)
(* writers' critical sections hold a single assignment, so Init and        *)
(* Disable are split at each of their unlocked writes.                     *)
(* Durations are in milliseconds.                                          *)
(***************************************************************************)
EXTENDS Integers, Sequences, FiniteSets, TLC

\* ---------------------------------------------------------------- bounds
\* instrumented calls made one after the other in one run
MaxCalls == 1
\* Tags arguments of one variadic call
MaxTagArgs == 2
\* Tags arguments of one call of a stop callback
MaxStopArgs == 1
\* arguments of one variadic ...interface{} tag list
MaxPairArgs == 3
\* invocations of one context's stop callback
MaxStops == 2
\* registry operations (Init, Disable, Close) in one run
MaxAdmin == 2
\* timed calls in flight at once
MaxInFlight == 2

\* ------------------------------------------------------------- constants
DatadogAgent == "datadog"
TelegrafAgent == "telegraf"
\* time.Second and 5 * time.Minute, in milliseconds
Second == 1000
DefaultStuckTimeout == 300000

ErrNone == "nil"
ErrUnsupportedAgent == "unsupported agent type"
ErrStatsdInit == "statsd init failed"
ErrProfiler == "profiler start failed"
Panicked == "panic"

\* ---------------------------------------------------------- configuration
\* A *StatterConfig; ptr = "nil" is the nil pointer.
Cfg(agent, env, timeout, mock, disabled, tracing, profiling) ==
  [ptr |-> "cfg", Agent |-> agent, EnvName |-> env,
   StuckFunctionTimeout |-> timeout, MockingEnabled |-> mock,
   Disabled |-> disabled, TracingEnabled |-> tracing,
   ProfilingEnabled |-> profiling]

NilCfg == [Cfg("", "", 0, FALSE, FALSE, FALSE, FALSE) EXCEPT !.ptr = "nil"]

\* &StatterConfig{}
ZeroCfg == Cfg("", "", 0, FALSE, FALSE, FALSE, FALSE)

Agents == {DatadogAgent, TelegrafAgent, "statsd"}

\* every configuration over small field domains (registry-only runs)
AllConfigs ==
  {Cfg(a, e, t, m, d, tr, pr) :
     a \in Agents, e \in {"", "prod"}, t \in {0, 60000},
     m \in BOOLEAN, d \in BOOLEAN, tr \in BOOLEAN, pr \in BOOLEAN}
  \cup {NilCfg}

\* the configurations used while instrumentation contexts are in flight
CoreConfigs ==
  { Cfg("", "", 60000, TRUE, FALSE, FALSE, FALSE),
    Cfg(DatadogAgent, "prod", 0, FALSE, FALSE, TRUE, TRUE),
    Cfg("statsd", "prod", 60000, FALSE, FALSE, FALSE, FALSE) }

\* variant: the configuration is stored as given, nothing is replaced
checkConfigAsGiven(cfg) == IF cfg.ptr = "nil" THEN ZeroCfg ELSE cfg

checkConfig(cfg) ==
  LET c0 == IF cfg.ptr = "nil" THEN ZeroCfg ELSE cfg
      c1 == IF c0.StuckFunctionTimeout < Second
              THEN [c0 EXCEPT !.StuckFunctionTimeout = DefaultStuckTimeout]
              ELSE c0
  IN  IF c1.EnvName = "" THEN [c1 EXCEPT !.EnvName = "local"] ELSE c1

\* variant: only the empty discriminator is rejected
SupportedAgentNonEmpty(a) == a # ""

SupportedAgent(a) == a \in {DatadogAgent, TelegrafAgent}

\* ------------------------------------------------------------------ state
VARIABLES
  client,         \* the Statter: [kind, closed]; kind "nil" is the nil interface
  config,         \* *StatterConfig
  tracer,         \* tracer != nil
  traceProvider,  \* "nil" | "running" | "shutdown"
  admin,          \* the goroutine running Init / Disable: [pc, via, cfg, disabled]
  adminOps,       \* registry operations started so far
  lastInit,       \* the last returned Init call: [cfg, built, result]
  ctx,            \* instrumentation contexts
  calls,          \* instrumented calls started so far
  sinkDown,       \* the sink's operations return a delivery error
  tg,             \* the tag or report operation last run: [op, in, out]
  usedClosed,     \* some operation was invoked on a sink after its Close()
  usedInertReal,  \* some operation was invoked on a network sink while Inert
  panics          \* panics raised so far: [what, inert]

vars == <<client, config, tracer, traceProvider, admin, adminOps, lastInit,
          ctx, calls, sinkDown, tg, usedClosed, usedInertReal, panics>>

NoClient == [kind |-> "nil", closed |-> FALSE]
Sink(kind) == [kind |-> kind, closed |-> FALSE]
\* variant: mocking builds the datadog client
newMockStatterReal == Sink(DatadogAgent)

newMockStatter == Sink("mock")

\* the goroutines making instrumented calls
Ctxs == {1}

\* the wrappers: T = ReportFuncTiming[Ctx] or ReportClosureFuncTiming,
\* CT = ReportFuncCallAndTiming[Ctx|SdkCtx], CTE = Report[Named]FuncCallAndTiming[Ctx]WithErr
Wrappers == {"T", "CT", "CTE"}
FuncNames == {"f"}
\* the error slot a WithErr callback finds: nil pointer, pointer to nil error, pointer to error
ErrSlots == {"nilptr", "nilerr", "err"}

\* no tag or report operation has run
TgIdle == [op |-> "none", in |-> <<>>, out |-> <<>>, done |-> FALSE]

IdleCtx ==
  [wrapper |-> "none", fn |-> "", phase |-> "idle", live |-> FALSE,
   sinkAtStart |-> FALSE,
   doneC |-> "none", wd |-> "none", sel |-> "none", timeout |-> 0, timerFired |-> FALSE,
   span |-> FALSE, spanEnds |-> 0,
   stops |-> <<>>, log |-> <<>>, first |-> "none"]

Init ==
  /\ client = NoClient
  /\ config = NilCfg
  /\ tracer = FALSE
  /\ traceProvider = "nil"
  /\ admin = [pc |-> "idle", via |-> "none", cfg |-> NilCfg, disabled |-> FALSE,
              sinks |-> <<>>, wrote |-> FALSE]
  /\ adminOps = 0
  /\ lastInit = [cfg |-> NilCfg, built |-> "none", result |-> "none", sinks |-> <<>>,
                 configChanged |-> FALSE]
  /\ ctx = [c \in Ctxs |-> IdleCtx]
  /\ calls = 0
  /\ sinkDown = FALSE
  /\ tg = TgIdle
  /\ usedClosed = FALSE
  /\ usedInertReal = FALSE
  /\ panics = {}

\* -------------------------------------------------------------- registry
\* No sink configured: Init never installed one, or Disable was the last
\* registry operation to return.
Inert == client.kind = "nil" \/ admin.disabled

\* sinks: the sinks the call assigned to client, in order; configChanged:
\* whether the call's assignment to config replaced it by a different one
Returned(cfg, built, result, sinks) ==
  [cfg |-> cfg, built |-> built, result |-> result, sinks |-> sinks,
   configChanged |-> admin.wrote]

AdminIdle ==
  [pc |-> "idle", via |-> "none", cfg |-> NilCfg, disabled |-> admin.disabled,
   sinks |-> <<>>, wrote |-> FALSE]

\* Init, up to its first write of shared state: the Disabled check (a nil
\* cfg panics on it), then config = checkConfig(cfg), or Disable()'s
\* config = checkConfig(nil).
InitBegin(cfgs) ==
  /\ admin.pc = "idle"
  /\ adminOps < MaxAdmin
  /\ adminOps' = adminOps + 1
  /\ \E cfg \in cfgs :
       IF cfg.ptr = "nil"
         THEN /\ panics' = panics \cup {[what |-> "nil cfg", inert |-> Inert]}
              /\ lastInit' = Returned(cfg, "none", Panicked, <<>>)
              /\ UNCHANGED <<config, admin>>
         ELSE /\ config' = IF cfg.Disabled THEN checkConfig(NilCfg) ELSE checkConfig(cfg)
              /\ admin' = [pc |-> IF cfg.Disabled THEN "disable_checked" ELSE "init_checked",
                           via |-> "Init", cfg |-> cfg, disabled |-> admin.disabled,
                           sinks |-> <<>>, wrote |-> config' # config]
              /\ UNCHANGED <<panics, lastInit>>
  /\ UNCHANGED <<client, tracer, traceProvider, ctx, calls, usedClosed, usedInertReal>>
  /\ UNCHANGED <<sinkDown, tg>>

\* Init from the MockingEnabled check to client = statter (under Lock).
\* ok: whether dogstatsd.New / newTelegrafStatter succeeds.
InitInstall ==
  /\ admin.pc = "init_checked"
  /\ \E ok \in BOOLEAN :
       IF config.MockingEnabled
         THEN /\ client' = newMockStatter
              /\ lastInit' = Returned(admin.cfg, "mock", ErrNone, <<newMockStatter.kind>>)
              /\ admin' = [AdminIdle EXCEPT !.disabled = FALSE]
         ELSE IF ~SupportedAgent(admin.cfg.Agent)
           THEN /\ lastInit' = Returned(admin.cfg, "none", ErrUnsupportedAgent, admin.sinks)
                /\ admin' = AdminIdle
                /\ UNCHANGED client
           ELSE IF ~ok
             THEN /\ lastInit' = Returned(admin.cfg, "failed", ErrStatsdInit, admin.sinks)
                  /\ admin' = AdminIdle
                  /\ UNCHANGED client
             ELSE /\ client' = Sink(admin.cfg.Agent)
                  /\ admin' = [admin EXCEPT !.pc = "init_installed", !.disabled = FALSE,
                                            !.sinks = Append(@, admin.cfg.Agent)]
                  /\ UNCHANGED lastInit
  /\ UNCHANGED <<config, tracer, traceProvider, adminOps, ctx, calls, usedClosed, usedInertReal, panics>>
  /\ UNCHANGED <<sinkDown, tg>>

\* Init after the sink is installed: the tracing provider, the profiler
\* (ok: whether profiler.Start succeeds), and the return.
InitFinish ==
  /\ admin.pc = "init_installed"
  /\ LET dd == admin.cfg.Agent = DatadogAgent
     IN  /\ IF dd /\ admin.cfg.TracingEnabled
              THEN traceProvider' = "running" /\ tracer' = TRUE
              ELSE UNCHANGED <<traceProvider, tracer>>
         /\ \E ok \in (IF dd /\ admin.cfg.ProfilingEnabled THEN BOOLEAN ELSE {TRUE}) :
              lastInit' = Returned(admin.cfg, "sink", IF ok THEN ErrNone ELSE ErrProfiler,
                                   admin.sinks)
  /\ admin' = AdminIdle
  /\ UNCHANGED <<client, config, adminOps, ctx, calls, usedClosed, usedInertReal, panics>>
  /\ UNCHANGED <<sinkDown, tg>>

\* Disable(), called directly: config = checkConfig(nil).
DisableBegin ==
  /\ admin.pc = "idle"
  /\ adminOps < MaxAdmin
  /\ adminOps' = adminOps + 1
  /\ config' = checkConfig(NilCfg)
  /\ admin' = [pc |-> "disable_checked", via |-> "Disable", cfg |-> NilCfg,
               disabled |-> admin.disabled, sinks |-> <<>>, wrote |-> config' # config]
  /\ UNCHANGED <<client, tracer, traceProvider, lastInit, ctx, calls, usedClosed, usedInertReal, panics>>
  /\ UNCHANGED <<sinkDown, tg>>

\* variant: Disable drops the sink instead of installing the mock
DisableInstallDropsSink ==
  /\ admin.pc = "disable_checked"
  /\ client' = NoClient
  /\ admin' = [admin EXCEPT !.pc = "disable_installed",
                            !.sinks = Append(@, NoClient.kind)]
  /\ UNCHANGED <<config, tracer, traceProvider, adminOps, lastInit, ctx, calls, usedClosed, usedInertReal, panics>>
  /\ UNCHANGED <<sinkDown, tg>>

\* Disable(): client = newMockStatter(true), under Lock.
DisableInstall ==
  /\ admin.pc = "disable_checked"
  /\ client' = newMockStatter
  /\ admin' = [admin EXCEPT !.pc = "disable_installed",
                            !.sinks = Append(@, newMockStatter.kind)]
  /\ UNCHANGED <<config, tracer, traceProvider, adminOps, lastInit, ctx, calls, usedClosed, usedInertReal, panics>>
  /\ UNCHANGED <<sinkDown, tg>>

\* Disable(): tracer = nil, and the return (Init returns nil after it).
DisableFinish ==
  /\ admin.pc = "disable_installed"
  /\ tracer' = FALSE
  /\ lastInit' = IF admin.via = "Init"
                    THEN Returned(admin.cfg, "mock", ErrNone, admin.sinks)
                    ELSE lastInit
  /\ admin' = [AdminIdle EXCEPT !.disabled = TRUE]
  /\ UNCHANGED <<client, config, traceProvider, adminOps, ctx, calls, usedClosed, usedInertReal, panics>>
  /\ UNCHANGED <<sinkDown, tg>>

\* variant: Close also resets the reference to nil
CloseDropsSink ==
  /\ adminOps < MaxAdmin
  /\ adminOps' = adminOps + 1
  /\ IF client.kind = "nil"
       THEN UNCHANGED <<client, traceProvider>>
       ELSE /\ traceProvider' = IF traceProvider = "nil" THEN "nil" ELSE "shutdown"
            /\ client' = NoClient
  /\ UNCHANGED <<config, tracer, admin, lastInit, ctx, calls, usedClosed, usedInertReal, panics>>
  /\ UNCHANGED <<sinkDown, tg>>

\* Close(), on any goroutine, under RLock: nothing when client is nil, else
\* traceProvider.Shutdown() and client.Close(). The reference stays.
Close ==
  /\ adminOps < MaxAdmin
  /\ adminOps' = adminOps + 1
  /\ IF client.kind = "nil"
       THEN UNCHANGED <<client, traceProvider>>
       ELSE /\ traceProvider' = IF traceProvider = "nil" THEN "nil" ELSE "shutdown"
            /\ client' = [client EXCEPT !.closed = TRUE]
  /\ UNCHANGED <<config, tracer, admin, lastInit, ctx, calls, usedClosed, usedInertReal, panics>>
  /\ UNCHANGED <<sinkDown, tg>>

\* ------------------------------------------------------------------- tags
\* A Tags value (map[string]string) is a function from its keys to strings.
EmptyTags == [k \in {} |-> ""]

\* the tag sets callers pass: empty, one key, the same key with another
\* value, another key, two keys, and the reserved key func_name
TagMaps ==
  { EmptyTags,
    [k \in {"a"} |-> "1"],
    [k \in {"a"} |-> "2"],
    [k \in {"b"} |-> "1"],
    [k \in {"a", "b"} |-> IF k = "a" THEN "1" ELSE "2"],
    [k \in {"func_name"} |-> "x"] }

\* the variadic argument lists of at most n Tags
TagLists(n) == UNION { [1..k -> TagMaps] : k \in 0..n }

\* for k, v := range t visits the keys in an order the runtime picks: the
\* orders it may pick
Orders(t) ==
  { o \in [1..Cardinality(DOMAIN t) -> DOMAIN t] :
      \A i, j \in DOMAIN o : i # j => o[i] # o[j] }

\* dst[k] = v for every pair of b, on a copy of a
Overlay(a, b) ==
  [k \in DOMAIN a \cup DOMAIN b |-> IF k \in DOMAIN b THEN b[k] ELSE a[k]]

RECURSIVE MergeLoop(_, _)
\* for _, tags := range src { for k, v := range tags { dst[k] = v } }
MergeLoop(dst, src) ==
  IF src = <<>> THEN dst ELSE MergeLoop(Overlay(dst, Head(src)), Tail(src))

\* MergeTags(original, src...): the map it returns
MergeTags(original, src) == MergeLoop(Overlay(EmptyTags, original), src)

\* variant: no new map is made, the pairs are written into original
MergeTagsInPlace(original, src) ==
  [dst |-> MergeLoop(original, src), original |-> MergeLoop(original, src), src |-> src]

\* one run of MergeTags: what it returns and what its arguments hold after
MergeTagsRun(original, src) ==
  [dst |-> MergeTags(original, src), original |-> original, src |-> src]

\* the first Tags of a variadic list (the only one the join functions read)
FirstTags(tags) == IF tags = <<>> THEN EmptyTags ELSE tags[1]

\* joinTelegrafTags(tags...), visiting tags[0] in order o
joinTelegrafTags(tags, o) ==
  IF tags = <<>> THEN <<>>
  ELSE [i \in 1..Len(o) |-> o[i] \o "=" \o tags[1][o[i]]]

\* joinDDTags(tags...), visiting tags[0] in order o
joinDDTags(tags, o) ==
  IF tags = <<>> THEN <<>>
  ELSE [i \in 1..Len(o) |-> o[i] \o ":" \o tags[1][o[i]]]

\* variant: the telegraf style is two tokens per pair
JoinTagsTwoTokens(tags, o) ==
  IF config.Agent = DatadogAgent THEN joinDDTags(tags, o)
  ELSE IF tags = <<>> THEN <<>>
  ELSE [i \in 1..(2 * Len(o)) |->
          IF i % 2 = 1 THEN o[(i + 1) \div 2] ELSE tags[1][o[i \div 2]]]

\* JoinTags(tags...): the style follows the process-wide config.Agent
JoinTags(tags, o) ==
  IF config.Agent = DatadogAgent THEN joinDDTags(tags, o) ELSE joinTelegrafTags(tags, o)

getSingleTag(key, value) ==
  IF config.Agent = DatadogAgent THEN key \o ":" \o value ELSE key \o "=" \o value

\* the tag list reportFunc(fn, action, tags...) emits, and tagArray of
\* reportTiming / ReportClosureFuncTiming: JoinTags, then func_name appended
funcTagArray(fn, tags, o) == Append(JoinTags(tags, o), getSingleTag("func_name", fn))

\* stopTagArray := append(tagArray, JoinTags(stopTags...)...)
stopTagArray(tagArray, stopTags, o) == tagArray \o JoinTags(stopTags, o)

\* --------------------------------------------------- loose tag arguments
\* An interface{} argument of a tag list: [t |-> its dynamic type, v |-> its
\* value]. A pointer's value is <<>> when it is nil and <<pointee>> otherwise;
\* StringRef points to the caller's string variable s.
TagsArg(m) == [t |-> "Tags", v |-> m]
StringArg(x) == [t |-> "string", v |-> x]
StringRef == [t |-> "*string", v |-> <<"s">>]
NilArg == [t |-> "nil", v |-> ""]
StructArg == [t |-> "struct", v |-> ""]

\* the string variable behind StringRef holds this when a timer is started
StartValue == "1"

\* the arguments callers pass
Args ==
  { TagsArg([k \in {"a"} |-> "1"]), TagsArg([k \in {"b"} |-> "2"]),
    StringArg("a"), StringArg("b"), StringArg("1"),
    StringRef, NilArg, StructArg }

ArgLists(n) == UNION { [1..k -> Args] : k \in 0..n }

SignedTypes == {"int", "int8", "int16", "int32", "int64"}
UnsignedTypes == {"uint", "uint8", "uint16", "uint32", "uint64"}
FloatTypes == {"float32", "float64"}
ScalarTypes ==
  {"string", "bool"} \cup SignedTypes \cup UnsignedTypes \cup FloatTypes

PointerTo(ty) == "*" \o ty
PointerTypes == { PointerTo(ty) : ty \in ScalarTypes }

\* the types ToString has a case for
SupportedTypes == ScalarTypes \cup PointerTypes \cup {"nil"}

Digits == <<"0", "1", "2", "3", "4", "5", "6", "7", "8", "9">>

RECURSIVE FormatUint(_)
\* strconv.FormatUint(n, 10)
FormatUint(n) ==
  IF n < 10 THEN Digits[n + 1] ELSE FormatUint(n \div 10) \o Digits[(n % 10) + 1]

\* strconv.Itoa(n), strconv.FormatInt(n, 10)
FormatInt(n) == IF n < 0 THEN "-" \o FormatUint(0 - n) ELSE FormatUint(n)

\* strconv.FormatFloat(f, 'f', -1, bits) for a float held in hundredths
\* [neg, whole, frac]: the shortest decimal, no trailing zeros
FormatFloat(f) ==
  (IF f.neg THEN "-" ELSE "") \o FormatUint(f.whole) \o
    (IF f.frac = 0 THEN ""
     ELSE IF f.frac % 10 = 0 THEN "." \o FormatUint(f.frac \div 10)
     ELSE "." \o Digits[(f.frac \div 10) + 1] \o Digits[(f.frac % 10) + 1])

\* strconv.FormatBool(b)
FormatBool(b) == IF b THEN "true" ELSE "false"

\* the string of a scalar of type ty
FormatScalar(ty, val) ==
  CASE ty = "string"          -> val
    [] ty = "bool"            -> FormatBool(val)
    [] ty \in SignedTypes     -> FormatInt(val)
    [] ty \in UnsignedTypes   -> FormatUint(val)
    [] ty \in FloatTypes      -> FormatFloat(val)

\* ToString(i): ok is false in the default case only
ToStringOk(x) == x.t \in SupportedTypes

\* ToString(i) dereferences a nil pointer: the *bool case has no nil check
ToStringPanics(x) == x.t = "*bool" /\ x.v = <<>>

\* ToString(i): the string; cell is what the caller's variable s holds now.
\* A nil pointer of a checked type leaves v empty.
toString(x, cell) ==
  CASE x.t \in ScalarTypes -> FormatScalar(x.t, x.v)
    [] x.t \in PointerTypes ->
         IF x.v = <<>> THEN ""
         ELSE IF x = StringRef THEN cell
         ELSE FormatScalar(CHOOSE ty \in ScalarTypes : PointerTo(ty) = x.t, x.v[1])
    [] x.t = "nil" -> "nil"
    [] OTHER -> ""

\* t[k] = v
Put(t, k, v) == Overlay(t, [kk \in {k} |-> v])

RECURSIVE AddPairsKeepLast(_, _, _)
\* variant: a last argument alone is a key with an empty value
AddPairsKeepLast(t, tags, cell) ==
  IF tags = <<>> THEN t
  ELSE IF Len(tags) = 1
    THEN (IF tags[1].t = "string" THEN Put(t, tags[1].v, "") ELSE t)
  ELSE LET k    == tags[1]
           x    == tags[2]
           rest == SubSeq(tags, 3, Len(tags))
       IN  IF k.t # "string" THEN AddPairsKeepLast(t, rest, cell)
           ELSE IF x.t = "nil" THEN AddPairsKeepLast(Put(t, k.v, "nil"), rest, cell)
           ELSE IF ~ToStringOk(x) THEN AddPairsKeepLast(t, rest, cell)
           ELSE AddPairsKeepLast(Put(t, k.v, toString(x, cell)), rest, cell)

RECURSIVE AddPairs(_, _, _)
\* AddPairs(t, tags...): two arguments per step, a last one alone is left out
AddPairs(t, tags, cell) ==
  IF Len(tags) < 2 THEN t
  ELSE LET k    == tags[1]
           x    == tags[2]
           rest == SubSeq(tags, 3, Len(tags))
       IN  IF k.t # "string" THEN AddPairs(t, rest, cell)
           ELSE IF x.t = "nil" THEN AddPairs(Put(t, k.v, "nil"), rest, cell)
           ELSE IF ~ToStringOk(x) THEN AddPairs(t, rest, cell)
           ELSE AddPairs(Put(t, k.v, toString(x, cell)), rest, cell)

RECURSIVE CombineLoop(_, _, _, _)
\* the range loop of Combine: a Tags is copied into tt at once, any other
\* argument is kept for the pairs (arguments of type []interface{} are not
\* among Args)
CombineLoop(tt, pairs, tags, cell) ==
  IF tags = <<>> THEN AddPairs(tt, pairs, cell)
  ELSE IF Head(tags).t = "Tags"
         THEN CombineLoop(Overlay(tt, Head(tags).v), pairs, Tail(tags), cell)
         ELSE CombineLoop(tt, Append(pairs, Head(tags)), Tail(tags), cell)

Combine(tags, cell) == CombineLoop(EmptyTags, <<>>, tags, cell)

\* combineAny(tags...) of reports.go
combineAny(tags, cell) == Combine(tags, cell)

\* ------------------------------------------------------- reporting facade
\* One call on the active sink, as the sink records it. by: the invocation
\* of the stop callback that made it (0: the start call or the watchdog);
\* closed: the sink had been closed when the call was made.
SinkCall(op, name, f, by) ==
  [op |-> op, name |-> name, fn |-> f, by |-> by, failed |-> sinkDown,
   closed |-> client.closed]

\* what n calls on the active sink do to the sink-use records
Uses(n) ==
  IF n = 0 \/ client.kind = "nil"
    THEN UNCHANGED <<usedClosed, usedInertReal>>
    ELSE /\ usedClosed' = (usedClosed \/ client.closed)
         /\ usedInertReal' = (usedInertReal \/ (Inert /\ SupportedAgent(client.kind)))

\* reportFunc(fn, action), under RLock: the calls it makes on the sink.
reportFunc(f, action, by) ==
  IF client.kind = "nil" THEN <<>> ELSE <<SinkCall("Incr", "func." \o action, f, by)>>

\* A context-free reporting operation, under RLock: CustomReport (Counter,
\* Incr, Gauge, Timer build on it) or a bare reportFunc (ReportFunc,
\* ReportFuncCall, ReportFuncError, ReportFuncStatus).
Report ==
  /\ Uses(1)
  /\ UNCHANGED <<client, config, tracer, traceProvider, admin, adminOps, lastInit,
                 ctx, calls, panics>>
  /\ UNCHANGED <<sinkDown, tg>>

\* ------------------------------------------------- instrumentation engine
Upd(c, r) == [ctx EXCEPT ![c] = r]

\* The instrumented call of goroutine c is over: its callback ran and every
\* invocation of it returned or panicked, and its watchdog exited.
Finished(c) ==
  /\ ctx[c].phase = "started"
  /\ ctx[c].stops # <<>>
  /\ \A i \in DOMAIN ctx[c].stops : ctx[c].stops[i].pc \in {"returned", "panicked"}
  /\ ctx[c].wd \in {"none", "done", "reported", "crashed"}

\* Goroutine c can make its next instrumented call.
CanCall(c) == calls < MaxCalls /\ (ctx[c].phase = "idle" \/ Finished(c))

RegistryUnchanged ==
  UNCHANGED <<client, config, tracer, traceProvider, admin, adminOps, lastInit>>

\* The first statement of a call-and-timing wrapper: reportFunc(fn, "called").
\* w: the wrapper called; f: the name CallerFuncName resolves, or the one given.
BeginCall(c) ==
  /\ CanCall(c)
  /\ calls' = calls + 1
  /\ \E w \in {"CT", "CTE"}, f \in FuncNames :
       ctx' = Upd(c, [IdleCtx EXCEPT !.wrapper = w, !.fn = f, !.phase = "called",
                                    !.log = reportFunc(f, "called", 0)])
  /\ Uses(1)
  /\ RegistryUnchanged
  /\ UNCHANGED panics
  /\ UNCHANGED <<sinkDown, tg>>

\* variant: the nil check on the sink is missing
TimingSinkAssumed == TRUE

\* reportTiming's and ReportClosureFuncTiming's nil check on the sink.
TimingSinkPresent == client.kind # "nil"

\* reportTiming / ReportClosureFuncTiming, under RLock: with no sink, the
\* no-op stop function; else the span (reportTiming only, when tracer is
\* set), doneC, the go statement of the watchdog, and the stop closure.
\* closure: the operation is ReportClosureFuncTiming.
StartTiming(c) ==
  /\ \E w \in Wrappers, f \in FuncNames, closure \in BOOLEAN :
       /\ IF ctx[c].phase = "called"
            THEN w = ctx[c].wrapper /\ f = ctx[c].fn /\ ~closure /\ UNCHANGED calls
            ELSE w = "T" /\ CanCall(c) /\ calls' = calls + 1
       /\ LET r == [(IF ctx[c].phase = "called" THEN ctx[c] ELSE IdleCtx)
                      EXCEPT !.sinkAtStart = (client.kind # "nil")]
          IN  ctx' = Upd(c,
                IF TimingSinkPresent
                  THEN [r EXCEPT !.wrapper = w, !.fn = f, !.phase = "started",
                                 !.live = TRUE, !.span = (tracer /\ ~closure),
                                 !.doneC = "open", !.wd = "spawned"]
                  ELSE [r EXCEPT !.wrapper = w, !.fn = f, !.phase = "started",
                                 !.live = FALSE])
  /\ RegistryUnchanged
  /\ UNCHANGED <<usedClosed, usedInertReal, panics>>
  /\ UNCHANGED <<sinkDown, tg>>

\* The watchdog goroutine starts: time.NewTimer(config.StuckFunctionTimeout).
WatchdogArm(c) ==
  /\ ctx[c].wd = "spawned"
  /\ IF config.ptr = "nil"
       THEN /\ panics' = panics \cup {[what |-> "nil config", inert |-> Inert]}
            /\ ctx' = Upd(c, [ctx[c] EXCEPT !.wd = "crashed"])
       ELSE /\ ctx' = Upd(c, [ctx[c] EXCEPT !.wd = "armed",
                                             !.timeout = config.StuckFunctionTimeout])
            /\ UNCHANGED panics
  /\ RegistryUnchanged
  /\ UNCHANGED calls
  /\ UNCHANGED <<usedClosed, usedInertReal>>
  /\ UNCHANGED <<sinkDown, tg>>

\* variant: the timer's send does not wake a watchdog blocked in its select
TimerFireNoWake(c) ==
  /\ ctx[c].wd \in {"armed", "parked"}
  /\ ~ctx[c].timerFired
  /\ ctx' = Upd(c, [ctx[c] EXCEPT !.timerFired = TRUE,
                                  !.first = IF @ = "none" THEN "timer" ELSE @])
  /\ RegistryUnchanged
  /\ UNCHANGED calls
  /\ UNCHANGED <<usedClosed, usedInertReal, panics>>
  /\ UNCHANGED <<sinkDown, tg>>

\* The stuck threshold elapses: the timer sends on timeout.C. A watchdog
\* blocked in its select is woken with the timeout case.
TimerFire(c) ==
  /\ ctx[c].wd \in {"armed", "parked"}
  /\ ~ctx[c].timerFired
  /\ ctx' = Upd(c, [ctx[c] EXCEPT !.timerFired = TRUE,
                                  !.wd = IF @ = "parked" THEN "timeout" ELSE @,
                                  !.first = IF @ = "none" THEN "timer" ELSE @])
  /\ RegistryUnchanged
  /\ UNCHANGED calls
  /\ UNCHANGED <<usedClosed, usedInertReal, panics>>
  /\ UNCHANGED <<sinkDown, tg>>

\* select with neither doneC nor timeout.C ready: the goroutine blocks.
WatchdogPark(c) ==
  /\ ctx[c].wd = "armed"
  /\ ctx[c].doneC = "open"
  /\ ~ctx[c].timerFired
  /\ ctx' = Upd(c, [ctx[c] EXCEPT !.wd = "parked", !.sel = "parked"])
  /\ RegistryUnchanged
  /\ UNCHANGED calls
  /\ UNCHANGED <<usedClosed, usedInertReal, panics>>
  /\ UNCHANGED <<sinkDown, tg>>

\* select finds doneC closed, case <-doneC: return.
WatchdogDone(c) ==
  /\ ctx[c].wd = "armed"
  /\ ctx[c].doneC = "closed"
  /\ ctx' = Upd(c, [ctx[c] EXCEPT !.wd = "done", !.sel = "ready"])
  /\ RegistryUnchanged
  /\ UNCHANGED calls
  /\ UNCHANGED <<usedClosed, usedInertReal, panics>>
  /\ UNCHANGED <<sinkDown, tg>>

\* select finds timeout.C ready, case <-timeout.C. With both channels ready
\* select takes either case.
WatchdogTimeout(c) ==
  /\ ctx[c].wd = "armed"
  /\ ctx[c].timerFired
  /\ ctx' = Upd(c, [ctx[c] EXCEPT !.wd = "timeout", !.sel = "ready"])
  /\ RegistryUnchanged
  /\ UNCHANGED calls
  /\ UNCHANGED <<usedClosed, usedInertReal, panics>>
  /\ UNCHANGED <<sinkDown, tg>>

\* variant: the timeout branch is in a loop and does not leave the select
WatchdogStuckLoop(c) ==
  /\ ctx[c].wd = "timeout"
  /\ client.kind # "nil"
  /\ ctx' = Upd(c, [ctx[c] EXCEPT
       !.log = Append(@, SinkCall("Incr", "func.stuck", ctx[c].fn, 0))])
  /\ Uses(1)
  /\ RegistryUnchanged
  /\ UNCHANGED <<calls, panics>>
  /\ UNCHANGED <<sinkDown, tg>>

\* variant: the timeout branch only logs, the counter is not emitted
WatchdogStuckSilent(c) ==
  /\ ctx[c].wd = "timeout"
  /\ ctx' = Upd(c, [ctx[c] EXCEPT !.wd = "reported"])
  /\ RegistryUnchanged
  /\ UNCHANGED <<calls, usedClosed, usedInertReal, panics>>
  /\ UNCHANGED <<sinkDown, tg>>

\* The timeout branch, under RLock: client.Incr("func.stuck", tagArray, 1)
\* with no nil check, then the span is marked and ended.
WatchdogStuck(c) ==
  /\ ctx[c].wd = "timeout"
  /\ IF client.kind = "nil"
       THEN /\ panics' = panics \cup {[what |-> "nil client", inert |-> Inert]}
            /\ ctx' = Upd(c, [ctx[c] EXCEPT !.wd = "crashed"])
            /\ Uses(0)
       ELSE /\ ctx' = Upd(c, [ctx[c] EXCEPT
                 !.wd = "reported",
                 !.log = Append(@, SinkCall("Incr", "func.stuck", ctx[c].fn, 0)),
                 !.spanEnds = IF ctx[c].span THEN @ + 1 ELSE @])
            /\ Uses(1)
            /\ UNCHANGED panics
  /\ RegistryUnchanged
  /\ UNCHANGED calls
  /\ UNCHANGED <<sinkDown, tg>>

\* variant: err != nil, the pointed-to error is not inspected
ErrSetPointerOnly(e) == e # "nilptr"

\* err != nil && *err != nil
ErrSet(e) == e = "err"

HasErrCallback(w) == w = "CTE"

\* One invocation of the callback the wrapper returned, up to close(doneC):
\* the no-op function returns at once; the stop closure closes doneC, which
\* panics on a closed channel and wakes a watchdog blocked in its select with
\* the doneC case.
StopInvoke(c) ==
  /\ ctx[c].phase = "started"
  /\ Len(ctx[c].stops) < MaxStops
  /\ LET e == "unread" IN
       IF ~ctx[c].live
         THEN /\ ctx' = Upd(c, [ctx[c] EXCEPT !.stops = Append(@,
                   [pc |-> IF HasErrCallback(ctx[c].wrapper) THEN "timed" ELSE "returned",
                    err |-> e])])
              /\ UNCHANGED panics
         ELSE IF ctx[c].doneC = "closed"
           THEN /\ ctx' = Upd(c, [ctx[c] EXCEPT !.stops = Append(@,
                     [pc |-> "panicked", err |-> e])])
                /\ panics' = panics \cup
                     {[what |-> "close of closed channel", inert |-> Inert]}
           ELSE /\ ctx' = Upd(c, [ctx[c] EXCEPT
                     !.stops = Append(@, [pc |-> "closed", err |-> e]),
                     !.doneC = "closed",
                     !.wd = IF @ = "parked" THEN "done" ELSE @,
                     !.first = IF @ = "none" THEN "stop" ELSE @])
                /\ UNCHANGED panics
  /\ RegistryUnchanged
  /\ UNCHANGED calls
  /\ UNCHANGED <<usedClosed, usedInertReal>>
  /\ UNCHANGED <<sinkDown, tg>>

\* variant: a failed Timing call is made once more
StopTimingRetry(c, i) ==
  /\ i \in DOMAIN ctx[c].stops
  /\ ctx[c].stops[i].pc = "closed"
  /\ client.kind # "nil"
  /\ LET call == SinkCall("Timing", "func.timing", ctx[c].fn, i)
     IN  ctx' = Upd(c, [ctx[c] EXCEPT
           !.stops[i].pc = IF HasErrCallback(ctx[c].wrapper) THEN "timed" ELSE "returned",
           !.log = @ \o (IF sinkDown THEN <<call, call>> ELSE <<call>>),
           !.spanEnds = IF ctx[c].span THEN @ + 1 ELSE @])
  /\ Uses(1)
  /\ RegistryUnchanged
  /\ UNCHANGED <<calls, panics, sinkDown, tg>>

\* The stop closure after close(doneC), under RLock:
\* client.Timing("func.timing", d, stopTagArray, 1) with no nil check, then
\* span.End().
StopTiming(c, i) ==
  /\ i \in DOMAIN ctx[c].stops
  /\ ctx[c].stops[i].pc = "closed"
  /\ IF client.kind = "nil"
       THEN /\ panics' = panics \cup {[what |-> "nil client", inert |-> Inert]}
            /\ ctx' = Upd(c, [ctx[c] EXCEPT !.stops[i].pc = "panicked"])
            /\ Uses(0)
       ELSE /\ ctx' = Upd(c, [ctx[c] EXCEPT
                 !.stops[i].pc = IF HasErrCallback(ctx[c].wrapper) THEN "timed" ELSE "returned",
                 !.log = Append(@, SinkCall("Timing", "func.timing", ctx[c].fn, i)),
                 !.spanEnds = IF ctx[c].span THEN @ + 1 ELSE @])
            /\ Uses(1)
            /\ UNCHANGED panics
  /\ RegistryUnchanged
  /\ UNCHANGED calls
  /\ UNCHANGED <<sinkDown, tg>>

\* variant: the callback inspects the error slot before it calls stop()
StopErrorBeforeStop(c, i) ==
  /\ i \in DOMAIN ctx[c].stops
  /\ ctx[c].stops[i].pc = "closed"
  /\ ctx[c].stops[i].err = "unread"
  /\ HasErrCallback(ctx[c].wrapper)
  /\ \E e \in ErrSlots :
       /\ ctx' = Upd(c, [ctx[c] EXCEPT
            !.stops[i].err = e,
            !.log = @ \o (IF e = "err" THEN reportFunc(ctx[c].fn, "error", i) ELSE <<>>)])
       /\ Uses(IF e = "err" THEN 1 ELSE 0)
  /\ RegistryUnchanged
  /\ UNCHANGED <<calls, panics>>
  /\ UNCHANGED <<sinkDown, tg>>

\* The WithErr callback after stop() has returned: the error slot is
\* inspected and ReportClosureFuncError(fn, ...) called. e: the slot as the
\* callback finds it.
StopError(c, i) ==
  /\ i \in DOMAIN ctx[c].stops
  /\ ctx[c].stops[i].pc = "timed"
  /\ \E e \in ErrSlots :
       /\ ctx' = Upd(c, [ctx[c] EXCEPT
            !.stops[i] = [pc |-> "returned", err |-> e],
            !.log = @ \o (IF ErrSet(e) THEN reportFunc(ctx[c].fn, "error", i) ELSE <<>>)])
       /\ Uses(IF ErrSet(e) THEN 1 ELSE 0)
  /\ RegistryUnchanged
  /\ UNCHANGED calls
  /\ UNCHANGED panics
  /\ UNCHANGED <<sinkDown, tg>>

\* ---------------------------------------------------------- specifications
Engine ==
  \E c \in Ctxs :
    \/ BeginCall(c)
    \/ StartTiming(c)
    \/ WatchdogArm(c)
    \/ TimerFire(c)
    \/ WatchdogPark(c)
    \/ WatchdogDone(c)
    \/ WatchdogTimeout(c)
    \/ WatchdogStuck(c)
    \/ StopInvoke(c)
    \/ \E i \in 1..MaxStops : StopTiming(c, i) \/ StopError(c, i)

Registry(cfgs) ==
  \/ InitBegin(cfgs)
  \/ InitInstall
  \/ InitFinish
  \/ DisableBegin
  \/ DisableInstall
  \/ DisableFinish
  \/ Close

Next == Registry(CoreConfigs) \/ Report \/ Engine

Spec == Init /\ [][Next]_vars

\* The scheduler runs a runnable watchdog goroutine, and a timer created with
\* a positive duration sends once the duration has elapsed. Nothing obliges
\* the instrumented caller to invoke its stop callback, nor anyone to call
\* Init, Disable, Close or a reporting operation.
WatchdogFairness ==
  \A c \in Ctxs :
    /\ WF_vars(WatchdogArm(c))
    /\ WF_vars(TimerFire(c))
    /\ WF_vars(WatchdogPark(c))
    /\ WF_vars(WatchdogDone(c))
    /\ WF_vars(WatchdogTimeout(c))
    /\ WF_vars(WatchdogStuck(c))

\* a traced sink, its stuck threshold left to checkConfig
WatchdogConfigs == { Cfg(DatadogAgent, "prod", 0, FALSE, FALSE, TRUE, FALSE) }

\* the engine and the registry, without the context-free reports
NextWatchdog == Registry(WatchdogConfigs) \/ Engine

SpecWatchdog == Init /\ [][NextWatchdog]_vars /\ WatchdogFairness

\* The network path to the sink breaks or recovers: while it is down every
\* Statter operation returns an error.
SinkFlip ==
  /\ sinkDown' = ~sinkDown
  /\ UNCHANGED <<client, config, tracer, traceProvider, admin, adminOps, lastInit,
                 ctx, calls, tg, usedClosed, usedInertReal, panics>>

\* a network-backed sink
DeliveryConfigs == { Cfg(TelegrafAgent, "prod", 60000, FALSE, FALSE, FALSE, FALSE) }

\* the engine over a sink whose operations may fail
NextDelivery ==
  \/ InitBegin(DeliveryConfigs)
  \/ InitInstall
  \/ InitFinish
  \/ SinkFlip
  \/ Engine

SpecDelivery == Init /\ [][NextDelivery]_vars

\* the registry alone, over every configuration
NextInit == Registry(AllConfigs) \/ Report

SpecInit == Init /\ [][NextInit]_vars

\* ----------------------------------------------------- tag specifications
\* the values config.Agent may hold while tags are rendered ("" under mocking
\* and after Disable)
TagAgents == {DatadogAgent, TelegrafAgent, ""}

TagConfigs ==
  { checkConfig(Cfg(a, "prod", 60000, a = "", FALSE, FALSE, FALSE)) : a \in TagAgents }

\* the wrappers that emit func.called and func.timing: CT =
\* ReportFuncCallAndTiming[Ctx|SdkCtx], WithErr = Report[Named]FuncCallAndTimingWithErr,
\* CtxWithErr = Report[Named]FuncCallAndTimingCtxWithErr
TagWrappers == {"CT", "WithErr", "CtxWithErr"}

\* a call about to be made, with its arguments
Pending(op, in) == [op |-> op, in |-> in, out |-> <<>>, done |-> FALSE]

\* a process with a sink installed
TagProcess ==
  /\ config \in TagConfigs
  /\ client = IF config.Agent = "" THEN newMockStatter ELSE Sink(config.Agent)
  /\ tracer = FALSE
  /\ traceProvider = "nil"
  /\ admin = [pc |-> "idle", via |-> "none", cfg |-> NilCfg, disabled |-> FALSE,
              sinks |-> <<>>, wrote |-> FALSE]
  /\ adminOps = 0
  /\ lastInit = [cfg |-> NilCfg, built |-> "none", result |-> "none", sinks |-> <<>>,
                 configChanged |-> FALSE]
  /\ ctx = [c \in Ctxs |-> IdleCtx]
  /\ calls = 0
  /\ sinkDown = FALSE
  /\ usedClosed = FALSE
  /\ usedInertReal = FALSE
  /\ panics = {}

\* about to call one of the tag functions
InitTags ==
  /\ TagProcess
  /\ \/ \E a \in TagMaps, b \in TagLists(MaxTagArgs) :
          tg = Pending("MergeTags", [original |-> a, src |-> b])
     \/ \E t \in TagLists(MaxTagArgs) :
          tg = Pending("JoinTags", [tags |-> t])

\* about to make an instrumented invocation, with its start-time and
\* stop-time tags
InitEmit ==
  /\ TagProcess
  /\ \E w \in TagWrappers, f \in FuncNames, t \in TagLists(MaxTagArgs),
        st \in TagLists(MaxStopArgs), e \in BOOLEAN, k \in BOOLEAN :
       tg = Pending("invocation",
                    [wrapper |-> w, fn |-> f, tags |-> t, stopTags |-> st,
                     err |-> e, stuck |-> k])

TagFrame ==
  UNCHANGED <<client, config, tracer, traceProvider, admin, adminOps, lastInit,
              ctx, calls, sinkDown, usedClosed, usedInertReal, panics>>

MergeTagsCall ==
  /\ tg.op = "MergeTags"
  /\ ~tg.done
  /\ tg' = [tg EXCEPT !.out = MergeTagsRun(tg.in.original, tg.in.src), !.done = TRUE]
  /\ TagFrame

JoinTagsCall ==
  /\ tg.op = "JoinTags"
  /\ ~tg.done
  /\ \E o \in Orders(FirstTags(tg.in.tags)) :
       tg' = [tg EXCEPT !.out = JoinTags(tg.in.tags, o), !.done = TRUE]
  /\ TagFrame

\* finalTags := MergeTags(MergeTags(nil, tags...), stopTags...)
finalTags(tags, stopTags) == MergeTags(MergeTags(EmptyTags, tags), stopTags)

\* what the returned callback hands to the stop closure of reportTiming
stopArgs(in) ==
  IF in.wrapper = "CtxWithErr" THEN << finalTags(in.tags, in.stopTags) >> ELSE in.stopTags

\* the sink calls of one instrumented invocation, with their tag lists:
\* func.called, func.stuck if the watchdog timed out, func.timing, and
\* func.error if the callback found an error
Emissions(in, o1, o2, o3, o4) ==
  LET tagArray == funcTagArray(in.fn, in.tags, o2)
      called   == [name |-> "func.called", tags |-> funcTagArray(in.fn, in.tags, o1)]
      stuck    == [name |-> "func.stuck", tags |-> tagArray]
      timing   == [name |-> "func.timing", tags |-> stopTagArray(tagArray, stopArgs(in), o3)]
      error    == [name |-> "func.error",
                   tags |-> funcTagArray(in.fn, << finalTags(in.tags, in.stopTags) >>, o4)]
  IN  <<called>> \o (IF in.stuck THEN <<stuck>> ELSE <<>>) \o <<timing>>
        \o (IF in.err /\ in.wrapper # "CT" THEN <<error>> ELSE <<>>)

Invocation ==
  /\ tg.op = "invocation"
  /\ ~tg.done
  /\ \E o1 \in Orders(FirstTags(tg.in.tags)), o2 \in Orders(FirstTags(tg.in.tags)),
        o3 \in Orders(FirstTags(stopArgs(tg.in))),
        o4 \in Orders(finalTags(tg.in.tags, tg.in.stopTags)) :
       tg' = [tg EXCEPT !.out = Emissions(tg.in, o1, o2, o3, o4), !.done = TRUE]
  /\ TagFrame

\* the tag functions alone
NextTags == MergeTagsCall \/ JoinTagsCall

SpecTags == InitTags /\ [][NextTags]_vars

\* the tag lists of instrumented invocations
NextEmit == Invocation

SpecEmit == InitEmit /\ [][NextEmit]_vars

\* the elements of a list
Range(q) == { q[i] : i \in DOMAIN q }

\* the emissions named `name` of the invocation that has run
Emitted(name) == { e \in Range(tg.out) : e.name = name }

\* an instrumented invocation has run
Invoked == tg.op = "invocation" /\ tg.done

\* -------------------------------------------------- report specification
\* CustomReport(reportFn, tags...), under RLock: nothing without a sink, else
\* the one call reportFn makes, with JoinTags(tags...) as its tags
CustomReport(op, metric, value, tags, o) ==
  IF client.kind = "nil" THEN <<>>
  ELSE << [op |-> op, name |-> metric, value |-> value, tags |-> JoinTags(tags, o)] >>

\* Counter(metric, value, tags...)
Counter(metric, value, tags, cell, o) ==
  CustomReport("Count", metric, value, << combineAny(tags, cell) >>, o)

\* Incr(metric, tags...)
Incr(metric, tags, cell, o) ==
  Counter(metric, 1, << TagsArg(combineAny(tags, cell)) >>, cell, o)

\* Gauge(metric, value, tags...)
Gauge(metric, value, tags, cell, o) ==
  CustomReport("Gauge", metric, value, << combineAny(tags, cell) >>, o)

\* Timer(metric, value, tags ...Tags)
Timer(metric, value, tags, o) == CustomReport("Timing", metric, value, tags, o)

BoolTag(b) == IF b THEN "true" ELSE "false"

\* the arguments the callback of Timing gets: the caller's, and under
\* TimingWithErr the pair "error", BoolTag(err != nil && *err != nil) after them
DeferredArgs(in) ==
  IF in.err = "none" THEN in.deferred
  ELSE in.deferred \o << StringArg("error"), StringArg(BoolTag(in.err = "err")) >>

\* variant: the deferred arguments are combined when the timer is started
TimingTagsAtStart(in) ==
  MergeTags(combineAny(in.initial, StartValue),
            << combineAny(DeferredArgs(in), StartValue) >>)

\* MergeTags(it, dt): it combined when Timing is called, dt in the callback
TimingTags(in) ==
  MergeTags(combineAny(in.initial, StartValue),
            << combineAny(DeferredArgs(in), in.cell) >>)

\* the initial tag arguments of the timers started
InitialArgLists ==
  { <<>>,
    << TagsArg([k \in {"a"} |-> "1"]) >>,
    << StringArg("a"), StringArg("1") >>,
    << StringArg("b"), StringRef >>,
    << TagsArg([k \in {"b"} |-> "2"]), StringArg("a"), StringArg("1") >> }

\* a process with the mock sink installed (the recording sink of the tests
\* stands in its place), about to make one of the report calls; cell is what
\* the variable behind StringRef holds when the call (for Timing: the
\* callback) runs
InitReports ==
  /\ TagProcess
  /\ config.MockingEnabled
  /\ \/ \E f \in {"Counter", "Incr", "Gauge"}, a \in ArgLists(MaxPairArgs),
           c \in {"1", "2"} :
          tg = Pending(f, [metric |-> "m", value |-> 5, args |-> a, cell |-> c])
     \/ \E t \in TagLists(MaxTagArgs) :
          tg = Pending("Timer", [metric |-> "m", value |-> 5, tags |-> t])
     \/ \E i \in InitialArgLists, d \in ArgLists(MaxPairArgs),
           e \in ErrSlots \cup {"none"}, c \in {"1", "2"} :
          tg = Pending("Timing",
                       [metric |-> "m", value |-> 5, initial |-> i, deferred |-> d,
                        err |-> e, cell |-> c])

\* the Tags list the call hands to CustomReport
ReportedTags ==
  CASE tg.op \in {"Counter", "Incr", "Gauge"} -> << combineAny(tg.in.args, tg.in.cell) >>
    [] tg.op = "Timer"  -> tg.in.tags
    [] tg.op = "Timing" -> << TimingTags(tg.in) >>

CounterCall ==
  /\ tg.op = "Counter"
  /\ ~tg.done
  /\ \E o \in Orders(FirstTags(ReportedTags)) :
       tg' = [tg EXCEPT !.done = TRUE,
                !.out = Counter(tg.in.metric, tg.in.value, tg.in.args, tg.in.cell, o)]
  /\ TagFrame

IncrCall ==
  /\ tg.op = "Incr"
  /\ ~tg.done
  /\ \E o \in Orders(FirstTags(ReportedTags)) :
       tg' = [tg EXCEPT !.done = TRUE,
                !.out = Incr(tg.in.metric, tg.in.args, tg.in.cell, o)]
  /\ TagFrame

GaugeCall ==
  /\ tg.op = "Gauge"
  /\ ~tg.done
  /\ \E o \in Orders(FirstTags(ReportedTags)) :
       tg' = [tg EXCEPT !.done = TRUE,
                !.out = Gauge(tg.in.metric, tg.in.value, tg.in.args, tg.in.cell, o)]
  /\ TagFrame

TimerCall ==
  /\ tg.op = "Timer"
  /\ ~tg.done
  /\ \E o \in Orders(FirstTags(ReportedTags)) :
       tg' = [tg EXCEPT !.done = TRUE,
                !.out = Timer(tg.in.metric, tg.in.value, tg.in.tags, o)]
  /\ TagFrame

\* the callback returned by Timing / TimingWithErr / TimingCtxWithErr runs
TimingCallback ==
  /\ tg.op = "Timing"
  /\ ~tg.done
  /\ \E o \in Orders(FirstTags(ReportedTags)) :
       tg' = [tg EXCEPT !.done = TRUE,
                !.out = Timer(tg.in.metric, tg.in.value, << TimingTags(tg.in) >>, o)]
  /\ TagFrame

NextReports == CounterCall \/ IncrCall \/ GaugeCall \/ TimerCall \/ TimingCallback

SpecReports == InitReports /\ [][NextReports]_vars

\* ------------------------------------------------ ToString specification
\* the values of each scalar type handed to ToString; a float is held in
\* hundredths as [neg, whole, frac]
ScalarValues(ty) ==
  CASE ty = "string"        -> {"test", ""}
    [] ty = "bool"          -> BOOLEAN
    [] ty \in SignedTypes   -> {0 - 7, 0, 42}
    [] ty \in UnsignedTypes -> {0, 42}
    [] ty \in FloatTypes    -> { [neg |-> FALSE, whole |-> 42, frac |-> 42],
                                 [neg |-> FALSE, whole |-> 1, frac |-> 0],
                                 [neg |-> TRUE, whole |-> 0, frac |-> 50] }

\* about to call ToString: on a scalar, on a pointer to a scalar, on a nil
\* pointer, on the nil interface, or on a value of another type
InitToString ==
  /\ TagProcess
  /\ \/ \E ty \in ScalarTypes : \E val \in ScalarValues(ty) :
          \/ tg = Pending("ToString", [x |-> [t |-> ty, v |-> val]])
          \/ tg = Pending("ToString", [x |-> [t |-> PointerTo(ty), v |-> <<val>>]])
     \/ \E ty \in ScalarTypes :
          tg = Pending("ToString", [x |-> [t |-> PointerTo(ty), v |-> <<>>]])
     \/ \E x \in {NilArg, StructArg, TagsArg([k \in {"a"} |-> "1"])} :
          tg = Pending("ToString", [x |-> x])

\* v, ok := ToString(x), and what AddPairs(nil, "a", x) makes of the pair
ToStringCall ==
  /\ tg.op = "ToString"
  /\ ~tg.done
  /\ tg' = [tg EXCEPT !.done = TRUE,
              !.out = IF ToStringPanics(tg.in.x)
                        THEN [v |-> "", ok |-> FALSE, panicked |-> TRUE, tags |-> EmptyTags]
                        ELSE [v |-> toString(tg.in.x, StartValue),
                              ok |-> ToStringOk(tg.in.x),
                              panicked |-> FALSE,
                              tags |-> AddPairs(EmptyTags, <<StringArg("a"), tg.in.x>>,
                                                StartValue)]]
  /\ TagFrame

NextToString == ToStringCall

SpecToString == InitToString /\ [][NextToString]_vars

\* --------------------------------------------------- pairs specification
RECURSIVE withTagFields(_)
\* mockStatter.withTagFields(tags): the log fields of a flat tag list
withTagFields(tags) ==
  IF Len(tags) < 2 THEN EmptyTags
  ELSE Overlay([kk \in {tags[1]} |-> tags[2]],
               withTagFields(SubSeq(tags, 3, Len(tags))))

\* the strings of flat tag lists
FlatStrings == {"a", "b", "1"}

\* about to build a tag set from a flat argument list, with AddPairs or with
\* the mock sink's withTagFields
InitPairs ==
  /\ TagProcess
  /\ \/ \E a \in ArgLists(MaxPairArgs) : tg = Pending("AddPairs", [tags |-> a])
     \/ \E k \in 0..MaxPairArgs : \E a \in [1..k -> FlatStrings] :
          tg = Pending("withTagFields", [tags |-> a])

AddPairsCall ==
  /\ tg.op = "AddPairs"
  /\ ~tg.done
  /\ tg' = [tg EXCEPT !.done = TRUE, !.out = AddPairs(EmptyTags, tg.in.tags, StartValue)]
  /\ TagFrame

WithTagFieldsCall ==
  /\ tg.op = "withTagFields"
  /\ ~tg.done
  /\ tg' = [tg EXCEPT !.done = TRUE, !.out = withTagFields(tg.in.tags)]
  /\ TagFrame

NextPairs == AddPairsCall \/ WithTagFieldsCall

SpecPairs == InitPairs /\ [][NextPairs]_vars

\* ----------------------------------------------- lock specification
\* A reporting goroutine runs reportFunc("f", "called", Tags{a: 1}) one
\* statement at a time while the registry operations run beside it. Its
\* position is kept in tg: locked (RLock taken, client found non-nil), joined
\* (JoinTags has read config.Agent), done (getSingleTag has read config.Agent
\* again, client.Incr was called, RUnlock).
ReaderHolds ==
  \/ tg.op = "reportFunc" /\ ~tg.done
  \/ tg.op = "reportTiming" /\ tg.in.readers # {}

\* clientMux.RLock() and the client == nil check; client and config record
\* what the registry held when the lock was taken
ReaderLock ==
  /\ tg.op = "none" \/ tg.done
  /\ tg' = [op |-> "reportFunc",
            in |-> [pc |-> "locked", client |-> client.kind, config |-> config,
                    tags |-> << [k \in {"a"} |-> "1"] >>],
            out |-> <<>>,
            done |-> client.kind = "nil"]
  /\ UNCHANGED <<client, config, tracer, traceProvider, admin, adminOps, lastInit,
                 ctx, calls, sinkDown, usedClosed, usedInertReal, panics>>

\* tagArray := JoinTags(tags...)
ReaderJoin ==
  /\ ReaderHolds
  /\ tg.in.pc = "locked"
  /\ \E o \in Orders(FirstTags(tg.in.tags)) :
       tg' = [tg EXCEPT !.in.pc = "joined", !.out = JoinTags(tg.in.tags, o)]
  /\ UNCHANGED <<client, config, tracer, traceProvider, admin, adminOps, lastInit,
                 ctx, calls, sinkDown, usedClosed, usedInertReal, panics>>

\* tagArray = append(tagArray, getSingleTag("func_name", fn)); client.Incr;
\* RUnlock
ReaderEmit ==
  /\ ReaderHolds
  /\ tg.in.pc = "joined"
  /\ tg' = [tg EXCEPT !.in.pc = "emitted", !.done = TRUE,
              !.out = Append(tg.out, getSingleTag("func_name", "f"))]
  /\ Uses(1)
  /\ UNCHANGED <<client, config, tracer, traceProvider, admin, adminOps, lastInit,
                 ctx, calls, sinkDown, panics>>

\* a step that takes clientMux.Lock(): it waits while a reader holds RLock
Exclusive(A) == ~ReaderHolds /\ A

NextLock ==
  \/ InitBegin(CoreConfigs)
  \/ Exclusive(InitInstall)
  \/ InitFinish
  \/ DisableBegin
  \/ Exclusive(DisableInstall)
  \/ DisableFinish
  \/ Close
  \/ ReaderLock
  \/ ReaderJoin
  \/ ReaderEmit

SpecLock == Init /\ [][NextLock]_vars

\* --------------------------------------------- access specification
\* Timed calls run reportTiming and the stop closure it returned one lock
\* operation at a time, their watchdogs beside them, while Init and Disable
\* run. tg.in.calls[i] is the position of call i (pc: idle, locked, noop,
\* inflight, closed, stopping, stopped) and of its watchdog (wd: none,
\* waiting, locked, exited), with the sink found at start; tg.in.readers is
\* the set of goroutines holding clientMux.RLock.
InFlightCalls == 1..MaxInFlight

TimingIdle ==
  [calls |-> [i \in InFlightCalls |-> [pc |-> "idle", wd |-> "none", sink |-> "nil"]],
   readers |-> {}]

Tm == IF tg.op = "reportTiming" THEN tg.in ELSE TimingIdle

TimingStep(in) == tg' = [op |-> "reportTiming", in |-> in, out |-> <<>>, done |-> FALSE]

AccessUnchanged ==
  UNCHANGED <<client, config, tracer, traceProvider, admin, adminOps, lastInit,
              ctx, calls, sinkDown, panics>>

\* reportTiming: clientMux.RLock(); defer clientMux.RUnlock()
TimingLock(i) ==
  /\ tg.op \in {"none", "reportTiming"}
  /\ Tm.calls[i].pc = "idle"
  /\ TimingStep([Tm EXCEPT !.calls[i].pc = "locked",
                           !.readers = @ \cup {<<i, "caller">>}])
  /\ AccessUnchanged
  /\ UNCHANGED <<usedClosed, usedInertReal>>

\* variant: reportTiming returns without RUnlock, the lock is kept for the
\* stop closure
TimingReturnLocked(i) ==
  /\ tg.op = "reportTiming"
  /\ Tm.calls[i].pc = "locked"
  /\ TimingStep(IF client.kind = "nil"
       THEN [Tm EXCEPT !.calls[i].pc = "noop"]
       ELSE [Tm EXCEPT !.calls[i] = [pc |-> "inflight", wd |-> "waiting",
                                     sink |-> client.kind]])
  /\ AccessUnchanged
  /\ UNCHANGED <<usedClosed, usedInertReal>>

\* reportTiming from the nil check to its return: the no-op function, or
\* doneC, the go statement of the watchdog and the stop closure; the
\* deferred RUnlock runs.
TimingReturn(i) ==
  /\ tg.op = "reportTiming"
  /\ Tm.calls[i].pc = "locked"
  /\ TimingStep(IF client.kind = "nil"
       THEN [Tm EXCEPT !.calls[i].pc = "noop",
                       !.readers = @ \ {<<i, "caller">>}]
       ELSE [Tm EXCEPT !.calls[i] = [pc |-> "inflight", wd |-> "waiting",
                                     sink |-> client.kind],
                       !.readers = @ \ {<<i, "caller">>}])
  /\ AccessUnchanged
  /\ UNCHANGED <<usedClosed, usedInertReal>>

\* the watchdog's select takes case <-timeout.C: clientMux.RLock()
WatchdogLock(i) ==
  /\ tg.op = "reportTiming"
  /\ Tm.calls[i].wd = "waiting"
  /\ TimingStep([Tm EXCEPT !.calls[i].wd = "locked",
                           !.readers = @ \cup {<<i, "watchdog">>}])
  /\ AccessUnchanged
  /\ UNCHANGED <<usedClosed, usedInertReal>>

\* the timeout branch: client.Incr("func.stuck"), the span, the deferred
\* RUnlock, and the goroutine returns
WatchdogUnlock(i) ==
  /\ tg.op = "reportTiming"
  /\ Tm.calls[i].wd = "locked"
  /\ TimingStep([Tm EXCEPT !.calls[i].wd = "exited",
                           !.readers = @ \ {<<i, "watchdog">>}])
  /\ Uses(1)
  /\ AccessUnchanged

\* the watchdog's select takes case <-doneC: return
WatchdogExit(i) ==
  /\ tg.op = "reportTiming"
  /\ Tm.calls[i].wd = "waiting"
  /\ Tm.calls[i].pc \in {"closed", "stopping", "stopped"}
  /\ TimingStep([Tm EXCEPT !.calls[i].wd = "exited"])
  /\ AccessUnchanged
  /\ UNCHANGED <<usedClosed, usedInertReal>>

\* the stop closure: close(doneC) and the stop tags
StopClose(i) ==
  /\ tg.op = "reportTiming"
  /\ Tm.calls[i].pc = "inflight"
  /\ TimingStep([Tm EXCEPT !.calls[i].pc = "closed"])
  /\ AccessUnchanged
  /\ UNCHANGED <<usedClosed, usedInertReal>>

\* the stop closure: clientMux.RLock(); defer clientMux.RUnlock()
StopLock(i) ==
  /\ tg.op = "reportTiming"
  /\ Tm.calls[i].pc = "closed"
  /\ TimingStep([Tm EXCEPT !.calls[i].pc = "stopping",
                           !.readers = @ \cup {<<i, "caller">>}])
  /\ AccessUnchanged
  /\ UNCHANGED <<usedClosed, usedInertReal>>

\* the stop closure: client.Timing("func.timing"), the span, the deferred
\* RUnlock
StopUnlock(i) ==
  /\ tg.op = "reportTiming"
  /\ Tm.calls[i].pc = "stopping"
  /\ TimingStep([Tm EXCEPT !.calls[i].pc = "stopped",
                           !.readers = @ \ {<<i, "caller">>}])
  /\ Uses(1)
  /\ AccessUnchanged

TimedCall ==
  \E i \in InFlightCalls :
    \/ TimingLock(i)
    \/ TimingReturn(i)
    \/ WatchdogLock(i)
    \/ WatchdogUnlock(i)
    \/ WatchdogExit(i)
    \/ StopClose(i)
    \/ StopLock(i)
    \/ StopUnlock(i)

NextAccess ==
  \/ InitBegin(WatchdogConfigs)
  \/ Exclusive(InitInstall)
  \/ InitFinish
  \/ DisableBegin
  \/ Exclusive(DisableInstall)
  \/ DisableFinish
  \/ TimedCall

\* A goroutine that holds RLock runs on to its RUnlock, and a goroutine
\* blocked in clientMux.Lock() obtains the lock once no reader holds it.
\* Nothing obliges a caller to invoke its stop callback.
AccessFairness ==
  /\ WF_vars(Exclusive(InitInstall))
  /\ WF_vars(Exclusive(DisableInstall))
  /\ \A i \in InFlightCalls :
       /\ WF_vars(TimingReturn(i))
       /\ WF_vars(WatchdogUnlock(i))
       /\ WF_vars(StopUnlock(i))

SpecAccess == Init /\ [][NextAccess]_vars /\ AccessFairness

\* -------------------------------------------------------------- properties
\* the positions in context c's record of sink calls of the metric `name`
At(c, name) == { k \in DOMAIN ctx[c].log : ctx[c].log[k].name = name }

Count(c, name) == Cardinality(At(c, name))

\* some invocation of c's callback panicked
StopPanicked(c) == \E i \in DOMAIN ctx[c].stops : ctx[c].stops[i].pc = "panicked"

\* invocation i of c's callback ran to its end
StopDone(c, i) == i \in DOMAIN ctx[c].stops /\ ctx[c].stops[i].pc = "returned"

\* invocation i of c's callback is past the stop closure
StopTimed(c, i) == i \in DOMAIN ctx[c].stops /\ ctx[c].stops[i].pc \in {"timed", "returned"}

\* C1: for a context started with a sink configured, no invocation of the
\* stop callback panics, however many there are, and at most one func.timing
\* is emitted for the context.
C1_RepeatedStopSafe ==
  \A c \in Ctxs :
    ctx[c].live => ~StopPanicked(c) /\ Count(c, "func.timing") <= 1

\* C2: with a single invocation of the stop callback, however it interleaves
\* with the timer and the watchdog, nothing panics, func.timing is emitted
\* exactly once (by the time the stop closure is through) and func.stuck at
\* most once.
C2_SingleStopRace ==
  \A c \in Ctxs :
    (ctx[c].live /\ Len(ctx[c].stops) <= 1) =>
      /\ ~StopPanicked(c)
      /\ ctx[c].wd # "crashed"
      /\ Count(c, "func.timing") = (IF StopTimed(c, 1) THEN 1 ELSE 0)
      /\ Count(c, "func.stuck") <= 1

C2_Witness ==
  \E c \in Ctxs :
    /\ ctx[c].live /\ Len(ctx[c].stops) = 1 /\ StopDone(c, 1)
    /\ ctx[c].timerFired /\ ctx[c].wd = "reported"
    /\ Count(c, "func.timing") = 1 /\ Count(c, "func.stuck") = 1

\* C3: when the stop callback closes the completion channel before the
\* threshold has elapsed, no func.stuck is ever emitted for the context, and
\* a single invocation leaves exactly one func.timing.
C3_NoStuckAfterEarlyStop ==
  \A c \in Ctxs :
    (ctx[c].live /\ ctx[c].first = "stop") =>
      /\ Count(c, "func.stuck") = 0
      /\ (Len(ctx[c].stops) = 1 /\ StopTimed(c, 1)) => Count(c, "func.timing") = 1

C5_CalledTimingErrorOrder ==
  \A c \in Ctxs :
    (ctx[c].wrapper = "CTE" /\ Len(ctx[c].stops) <= 1) =>
      /\ \A k \in At(c, "func.called") : k = 1
      /\ \A k \in At(c, "func.called") : \A j \in At(c, "func.timing") : k < j
      /\ \A k \in At(c, "func.timing") : \A j \in At(c, "func.error") : k < j
      /\ \A k \in At(c, "func.called") : \A j \in At(c, "func.error") : k < j
      /\ (At(c, "func.called") # {} /\ StopDone(c, 1)) =>
            Count(c, "func.called") = 1 /\ Count(c, "func.timing") = 1

C5_Witness ==
  \E c \in Ctxs :
    /\ ctx[c].wrapper = "CTE" /\ Len(ctx[c].stops) = 1 /\ StopDone(c, 1)
    /\ Len(ctx[c].log) = 3
    /\ ctx[c].log[1].name = "func.called"
    /\ ctx[c].log[2].name = "func.timing"
    /\ ctx[c].log[3].name = "func.error"

\* C6: an invocation of a with-error callback that has returned emitted one
\* func.error, carrying the function name of the context, when its slot was
\* a non-nil pointer to a non-nil error, and none otherwise; an invocation
\* with called recorded and no stuck signal makes 3 sink calls, or 2.
C6_ErrorCounter ==
  \A c \in Ctxs :
    (ctx[c].live /\ ctx[c].wrapper = "CTE") =>
      /\ \A i \in DOMAIN ctx[c].stops :
           StopDone(c, i) =>
             LET E == { k \in At(c, "func.error") : ctx[c].log[k].by = i }
             IN  /\ Cardinality(E) = (IF ctx[c].stops[i].err = "err" THEN 1 ELSE 0)
                 /\ \A k \in E : ctx[c].log[k].fn = ctx[c].fn /\ ctx[c].log[k].op = "Incr"
      /\ ( /\ Len(ctx[c].stops) = 1 /\ StopDone(c, 1)
           /\ At(c, "func.called") # {} /\ At(c, "func.stuck") = {} ) =>
            Len(ctx[c].log) = (IF ctx[c].stops[1].err = "err" THEN 3 ELSE 2)

C6_Witness ==
  \E c \in Ctxs :
    /\ ctx[c].live /\ ctx[c].wrapper = "CTE"
    /\ Len(ctx[c].stops) = 1 /\ StopDone(c, 1) /\ ctx[c].stops[1].err = "err"
    /\ Count(c, "func.error") = 1 /\ Len(ctx[c].log) = 3

\* C7: while no sink is configured (Init never called, or Disable has
\* returned and no later Init installed one) nothing panics and no call
\* reaches a real sink.
C7_InertNoPanicNoCall ==
  /\ \A p \in panics : ~p.inert
  /\ ~usedInertReal

\* C8: a context started while no sink was configured has no watchdog and no
\* completion channel, its stop callback emits nothing and never panics,
\* however often it is invoked and whatever sink is installed meanwhile.
C8_NoSinkAtStart ==
  \A c \in Ctxs :
    (ctx[c].phase = "started" /\ ~ctx[c].sinkAtStart) =>
      /\ ~ctx[c].live
      /\ ctx[c].wd = "none" /\ ctx[c].doneC = "none"
      /\ At(c, "func.timing") = {} /\ At(c, "func.stuck") = {}
      /\ ~StopPanicked(c)
      /\ ctx[c].wrapper # "CTE" => \A k \in DOMAIN ctx[c].log : ctx[c].log[k].by = 0

C8_Witness ==
  \E c \in Ctxs :
    /\ ctx[c].phase = "started" /\ ~ctx[c].sinkAtStart
    /\ client.kind # "nil"
    /\ Len(ctx[c].stops) = 2 /\ StopDone(c, 1) /\ StopDone(c, 2)

\* C9: no reporting call, stop callback or watchdog makes a call on a sink
\* that Close has closed.
C9_NoCallOnClosedSink == ~usedClosed

\* C10 as stated: every Init call with a configuration whose agent is neither
\* "datadog" nor "telegraf" returns ErrUnsupportedAgent.
C10_UnsupportedAgentAlways ==
  (lastInit.result # "none" /\ lastInit.cfg.ptr = "cfg"
     /\ lastInit.cfg.Agent \notin {DatadogAgent, TelegrafAgent}) =>
    lastInit.result = ErrUnsupportedAgent

\* C10 amended: an Init call whose configuration sets neither Disabled nor
\* MockingEnabled returns ErrUnsupportedAgent exactly when its agent is
\* neither "datadog" nor "telegraf", and installs no sink then; a failed
\* construction returns the wrapped "statsd init failed" error; a disabled
\* or mocking configuration returns nil whatever its agent.
C10_InitErrors ==
  (lastInit.result # "none" /\ lastInit.cfg.ptr = "cfg") =>
    LET plain == ~lastInit.cfg.Disabled /\ ~lastInit.cfg.MockingEnabled
        known == lastInit.cfg.Agent \in {DatadogAgent, TelegrafAgent}
    IN  /\ (plain /\ ~known) => (lastInit.result = ErrUnsupportedAgent /\ lastInit.built = "none")
        /\ lastInit.result = ErrUnsupportedAgent => (plain /\ ~known)
        /\ lastInit.built = "failed" <=> lastInit.result = ErrStatsdInit
        /\ lastInit.result = ErrStatsdInit => (plain /\ known)
        /\ ~plain => lastInit.result = ErrNone

C10_Witness ==
  /\ lastInit.result = ErrUnsupportedAgent
  /\ lastInit.cfg.Agent = "statsd"
  /\ client.kind = "nil"

\* C11: an Init call that returned nil assigned exactly one sink to client:
\* the mock sink when cfg.Disabled or cfg.MockingEnabled is set, otherwise
\* the client of its agent, which is "datadog" or "telegraf".
C11_InitInstallsOneSink ==
  (lastInit.result = ErrNone /\ lastInit.cfg.ptr = "cfg") =>
    IF lastInit.cfg.Disabled \/ lastInit.cfg.MockingEnabled
      THEN lastInit.sinks = <<"mock">>
      ELSE /\ lastInit.cfg.Agent \in {DatadogAgent, TelegrafAgent}
           /\ lastInit.sinks = <<lastInit.cfg.Agent>>

C11_Witness ==
  /\ lastInit.result = ErrNone
  /\ ~lastInit.cfg.Disabled /\ ~lastInit.cfg.MockingEnabled
  /\ lastInit.sinks = <<TelegrafAgent>>
  /\ client.kind = TelegrafAgent

\* C12: whatever Init and Disable calls have run, the active configuration
\* has a StuckFunctionTimeout of at least one second, which is a requested
\* value of at least one second or else five minutes, and an EnvName that is
\* a requested non-empty one or else "local"; every watchdog that created
\* its timer created it with at least one second.
C12_ConfigFloor ==
  /\ config.ptr = "cfg" =>
       /\ config.StuckFunctionTimeout >= Second
       /\ \/ config.StuckFunctionTimeout = DefaultStuckTimeout
          \/ \E cfg \in CoreConfigs :
               cfg.StuckFunctionTimeout = config.StuckFunctionTimeout
       /\ config.EnvName # ""
       /\ \/ config.EnvName = "local"
          \/ \E cfg \in CoreConfigs : cfg.EnvName = config.EnvName
  /\ \A c \in Ctxs :
       ctx[c].wd \notin {"none", "spawned"} =>
         ctx[c].wd # "crashed" /\ ctx[c].timeout >= Second

C12_Witness ==
  /\ config.ptr = "cfg" /\ config.EnvName = "local"
  /\ \E c \in Ctxs : ctx[c].wd = "parked" /\ ctx[c].timeout = DefaultStuckTimeout

\* C13: whether or not sink operations return delivery errors, no reporting
\* call panics, every emission is one sink call (func.called at most once,
\* func.timing once per completed stop, func.error once per erroring
\* invocation), and after a failed call the later emissions of the
\* invocation are still made, func.timing before func.error.
C13_DeliveryErrorsSwallowed ==
  \A c \in Ctxs :
    /\ ctx[c].wd # "crashed"
    /\ Count(c, "func.called") <= 1
    /\ (ctx[c].live /\ Len(ctx[c].stops) <= 1) =>
         /\ ~StopPanicked(c)
         /\ Count(c, "func.timing") = (IF StopTimed(c, 1) THEN 1 ELSE 0)
         /\ (ctx[c].wrapper = "CTE" /\ StopDone(c, 1)) =>
              /\ Count(c, "func.error") = (IF ctx[c].stops[1].err = "err" THEN 1 ELSE 0)
              /\ \A k \in At(c, "func.timing") : \A j \in At(c, "func.error") : k < j

C13_Witness ==
  \E c \in Ctxs :
    /\ ctx[c].live /\ ctx[c].wrapper = "CTE"
    /\ Len(ctx[c].stops) = 1 /\ StopDone(c, 1)
    /\ Len(ctx[c].log) = 3
    /\ \A k \in 1..3 : ctx[c].log[k].failed
    /\ ctx[c].log[1].name = "func.called"
    /\ ctx[c].log[2].name = "func.timing"
    /\ ctx[c].log[3].name = "func.error"

\* the start-time key k is among the tags of emission e, with a value some
\* start-time Tags argument gave it
StartKeyEmitted(e, k) ==
  \E j \in DOMAIN tg.in.tags :
    /\ k \in DOMAIN tg.in.tags[j]
    /\ getSingleTag(k, tg.in.tags[j][k]) \in Range(e.tags)

\* C14: every key/value pair supplied at start time, in any of the Tags
\* arguments passed to a wrapper, is present in the tag list of the
\* invocation's func.called emission and of its func.timing emission (for the
\* CT and WithErr wrappers, whose stop callback does not pass the start tags
\* again, and when no stop-time tag replaces the key).
C14_StartTagsEmitted ==
  (Invoked /\ tg.in.wrapper # "CtxWithErr" /\ tg.in.stopTags = <<>>) =>
    \A i \in DOMAIN tg.in.tags : \A k \in DOMAIN tg.in.tags[i] :
      \A e \in Emitted("func.called") \cup Emitted("func.timing") :
        StartKeyEmitted(e, k)

\* some caller-supplied Tags of the invocation holds the key func_name
CallerNamesFunc ==
  \E t \in Range(tg.in.tags) \cup Range(tg.in.stopTags) : "func_name" \in DOMAIN t

\* C15: the tag list of a func.timing emission is the start-time tags merged
\* with the stop-time tags: each key appears exactly once, and a key supplied
\* both at start and at stop carries the stop-time value; for the plain stop
\* callback and for the WithErr and CtxWithErr wrappers (stated for one
\* start-time and one stop-time Tags argument at most, none holding func_name).
C15_TimingTagsMerged ==
  (Invoked /\ Len(tg.in.tags) <= 1 /\ Len(tg.in.stopTags) <= 1 /\ ~CallerNamesFunc) =>
    \A e \in Emitted("func.timing") :
      LET m == finalTags(tg.in.tags, tg.in.stopTags)
      IN  /\ Len(e.tags) = Cardinality(DOMAIN m) + 1
          /\ \A k \in DOMAIN m : getSingleTag(k, m[k]) \in Range(e.tags)

\* the renderings of a func_name tag, whatever its value
FuncNameTokens ==
  { getSingleTag("func_name", v) :
      v \in FuncNames \cup UNION { Range(t) : t \in TagMaps } }

\* C16: every func.called, func.timing, func.error and func.stuck emission
\* carries the func_name tag exactly once, as the last element of its tag
\* list, with the resolved operation name as its value, even when the caller
\* supplies a func_name tag or stop-time tags.
C16_FuncNameOnceLast ==
  Invoked =>
    \A e \in Range(tg.out) :
      /\ Len(e.tags) >= 1
      /\ e.tags[Len(e.tags)] = getSingleTag("func_name", tg.in.fn)
      /\ Cardinality({ i \in DOMAIN e.tags : e.tags[i] \in FuncNameTokens }) = 1

\* a call of MergeTags has returned
Merged == tg.op = "MergeTags" /\ tg.done

\* the arguments of the call, in the order given: A, B1, ..., Bn
MergeArgs == <<tg.in.original>> \o tg.in.src

\* the last argument holding key k
LastHolding(k) ==
  CHOOSE j \in DOMAIN MergeArgs :
    /\ k \in DOMAIN MergeArgs[j]
    /\ \A i \in DOMAIN MergeArgs : k \in DOMAIN MergeArgs[i] => i <= j

\* C17: MergeTags(A, B1, ..., Bn) returns a tag set whose keys are exactly
\* the union of the inputs' keys, a key present in several inputs takes the
\* value of the last input holding it, and no input tag set is modified.
C17_MergeTagsRightBiased ==
  Merged =>
    /\ DOMAIN tg.out.dst = UNION { DOMAIN MergeArgs[j] : j \in DOMAIN MergeArgs }
    /\ \A k \in DOMAIN tg.out.dst : tg.out.dst[k] = MergeArgs[LastHolding(k)][k]
    /\ tg.out.original = tg.in.original
    /\ tg.out.src = tg.in.src

\* a merge of A, B1, B2 where B1 overrides a key of A and B2 brings a new key
C17_Witness ==
  /\ Merged
  /\ Len(tg.in.src) = 2
  /\ \E k \in DOMAIN tg.in.original \cap DOMAIN tg.in.src[1] :
       /\ tg.in.original[k] # tg.in.src[1][k]
       /\ tg.out.dst[k] = tg.in.src[1][k]
  /\ \E k \in DOMAIN tg.in.src[2] : k \notin DOMAIN tg.in.original \cup DOMAIN tg.in.src[1]

\* a call of JoinTags has returned
Joined == tg.op = "JoinTags" /\ tg.done

\* C18 as stated: JoinTags renders a tag set by the process-wide agent
\* setting, one token key:value per pair under datadog, two consecutive
\* tokens key, value per pair under telegraf.
C18_TelegrafTwoTokens ==
  (Joined /\ Len(tg.in.tags) = 1) =>
    LET t == tg.in.tags[1]
    IN  /\ config.Agent = DatadogAgent =>
             /\ Len(tg.out) = Cardinality(DOMAIN t)
             /\ Range(tg.out) = { k \o ":" \o t[k] : k \in DOMAIN t }
        /\ config.Agent = TelegrafAgent =>
             /\ Len(tg.out) = 2 * Cardinality(DOMAIN t)
             /\ \A k \in DOMAIN t :
                  \E i \in DOMAIN tg.out :
                    i % 2 = 1 /\ tg.out[i] = k /\ tg.out[i + 1] = t[k]

\* C18: JoinTags renders a tag set by the process-wide agent setting: one
\* token key:value per pair under the datadog agent, one token key=value per
\* pair under any other agent setting, in no particular order; no Tags
\* argument gives the empty list.
C18_JoinTagsOneToken ==
  /\ (Joined /\ Len(tg.in.tags) = 1) =>
       LET t   == tg.in.tags[1]
           sep == IF config.Agent = DatadogAgent THEN ":" ELSE "="
       IN  /\ Len(tg.out) = Cardinality(DOMAIN t)
           /\ Range(tg.out) = { k \o sep \o t[k] : k \in DOMAIN t }
  /\ (Joined /\ tg.in.tags = <<>>) => tg.out = <<>>

\* a two-pair tag set rendered for telegraf, second key first
C18_Witness ==
  /\ Joined
  /\ config.Agent = TelegrafAgent
  /\ Len(tg.in.tags) = 1
  /\ DOMAIN tg.in.tags[1] = {"a", "b"}
  /\ tg.out = <<"b=2", "a=1">>

\* the arguments of a tag list that are not Tags maps, in order
Loose(args) == SelectSeq(args, LAMBDA x : x.t # "Tags")

\* the positions of the keys among the loose arguments
KeyPos(args) == { i \in DOMAIN Loose(args) : i % 2 = 1 }

\* the positions of the Tags maps of a tag list
MapPos(args) == { i \in DOMAIN args : args[i].t = "Tags" }

\* a tag list that says what it means: the loose arguments are string keys
\* each followed by a value ToString accepts, and no key is supplied twice
WellFormed(args) ==
  /\ Len(Loose(args)) % 2 = 0
  /\ \A i \in KeyPos(args) : Loose(args)[i].t = "string" /\ ToStringOk(Loose(args)[i + 1])
  /\ \A i, j \in KeyPos(args) : i # j => Loose(args)[i].v # Loose(args)[j].v
  /\ \A i, j \in MapPos(args) : i # j => DOMAIN args[i].v \cap DOMAIN args[j].v = {}
  /\ \A i \in KeyPos(args) : \A j \in MapPos(args) : Loose(args)[i].v \notin DOMAIN args[j].v

\* the key/value pairs a well-formed tag list supplies
Supplied(args, cell) ==
  UNION { { <<k, args[j].v[k]>> : k \in DOMAIN args[j].v } : j \in MapPos(args) }
  \cup { <<Loose(args)[i].v, toString(Loose(args)[i + 1], cell)>> : i \in KeyPos(args) }

\* the tag arguments of the report call that has run, as a tag list
ReportArgs ==
  IF tg.op = "Timer" THEN [i \in DOMAIN tg.in.tags |-> TagsArg(tg.in.tags[i])]
  ELSE tg.in.args

\* the sink operation behind each report call
SinkOp == [Counter |-> "Count", Incr |-> "Count", Gauge |-> "Gauge", Timer |-> "Timing"]

\* a call of Counter, Incr, Gauge or Timer has returned
Reported == tg.op \in {"Counter", "Incr", "Gauge", "Timer"} /\ tg.done

\* C19: with a recording sink installed, one call of Counter, Incr, Gauge or
\* Timer produces exactly one sink call (Count, Count with value 1, Gauge,
\* Timing) with the supplied metric name and value and exactly the supplied
\* tag pairs, whether the tags come as one Tags map, several Tags maps, flat
\* key/value arguments or a mix.
C19_OneRecordedCall ==
  (Reported /\ WellFormed(ReportArgs)) =>
    /\ Len(tg.out) = 1
    /\ tg.out[1].op = SinkOp[tg.op]
    /\ tg.out[1].name = tg.in.metric
    /\ tg.out[1].value = (IF tg.op = "Incr" THEN 1 ELSE tg.in.value)
    /\ Len(tg.out[1].tags) = Cardinality(Supplied(ReportArgs, tg.in.cell))
    /\ Range(tg.out[1].tags) =
         { getSingleTag(p[1], p[2]) : p \in Supplied(ReportArgs, tg.in.cell) }

\* the callback of a timer has run
Timed == tg.op = "Timing" /\ tg.done

\* the pairs the deferred arguments supply when the callback runs, with the
\* error pair of TimingWithErr
DeferredPairs ==
  Supplied(tg.in.deferred, tg.in.cell)
  \cup (IF tg.in.err = "none" THEN {}
        ELSE { <<"error", IF tg.in.err = "err" THEN "true" ELSE "false">> })

\* the initial pairs (as supplied when the timer was started) overlaid by the
\* deferred pairs
OverlaidPairs ==
  { p \in Supplied(tg.in.initial, StartValue) : \A q \in DeferredPairs : q[1] # p[1] }
  \cup DeferredPairs

\* C20: one invocation of the callback returned by Timing / TimingWithErr
\* emits exactly one Timing call whose tag set is the initial tags overlaid by
\* the deferred tags (deferred values win); a Tags map anywhere in the
\* deferred arguments is taken out without disturbing the pairing of the
\* key/value arguments around it, and a deferred value passed by pointer is
\* read when the callback runs (for well-formed argument lists).
C20_TimingOverlay ==
  (Timed /\ WellFormed(tg.in.initial) /\ WellFormed(tg.in.deferred)) =>
    /\ Len(tg.out) = 1
    /\ tg.out[1].op = "Timing"
    /\ tg.out[1].name = tg.in.metric
    /\ Len(tg.out[1].tags) = Cardinality(OverlaidPairs)
    /\ Range(tg.out[1].tags) = { getSingleTag(p[1], p[2]) : p \in OverlaidPairs }

\* TimingWithErr("m", Tags{a:1})(&err, "a", Tags{b:2}, &s) with an error, s
\* changed after the start: the map sits between the key a and its value
C20_Witness ==
  /\ Timed
  /\ tg.in.err = "err"
  /\ tg.in.initial = << TagsArg([k \in {"a"} |-> "1"]) >>
  /\ tg.in.deferred = << StringArg("a"), TagsArg([k \in {"b"} |-> "2"]), StringRef >>
  /\ tg.in.cell = "2"
  /\ Range(tg.out[1].tags) = { "a=2", "b=2", "error=true" }

\* the renderings of a tag with key error
ErrorTokens ==
  { getSingleTag("error", v) : v \in {"true", "false", "nil", "a", "b", "1", "2"} }

\* C21: for every deferred argument list passed to the callback returned by
\* TimingWithErr, the emitted Timing call carries exactly one tag with key
\* error, true when the error slot is a non-nil pointer to a non-nil error
\* and false otherwise.
C21_ErrorTagAlways ==
  (Timed /\ tg.in.err # "none") =>
    /\ Len(tg.out) = 1
    /\ { i \in DOMAIN tg.out[1].tags : tg.out[1].tags[i] \in ErrorTokens }
         = { i \in DOMAIN tg.out[1].tags :
               tg.out[1].tags[i] = getSingleTag("error", BoolTag(tg.in.err = "err")) }
    /\ Cardinality({ i \in DOMAIN tg.out[1].tags : tg.out[1].tags[i] \in ErrorTokens }) = 1

\* a call of ToString has returned or panicked
Converted == tg.op = "ToString" /\ tg.done

\* the literal the native formatter gives for each value handed in
Canonical(ty, val) ==
  CASE ty = "string" -> val
    [] ty = "bool" -> (IF val THEN "true" ELSE "false")
    [] ty \in SignedTypes \cup UnsignedTypes ->
         (IF val = 42 THEN "42" ELSE IF val = 0 THEN "0" ELSE "-7")
    [] ty \in FloatTypes ->
         (IF val.whole = 42 THEN "42.42" ELSE IF val.whole = 1 THEN "1" ELSE "-0.5")

\* the scalar type a pointer type points to
Pointee(pt) == CHOOSE ty \in ScalarTypes : PointerTo(ty) = pt

\* C22: ToString returns ok = true and the canonical string for every input
\* of a supported type (string, every integer width, floats, bool, a pointer
\* to any of these including a nil pointer, and untyped nil, rendered "nil")
\* without crashing, and ok = false with the empty string for every other
\* type; a pair whose value is not ok contributes no tag.
C22_ToStringTotal ==
  Converted =>
    LET x == tg.in.x
    IN  /\ ~tg.out.panicked
        /\ x.t \in ScalarTypes => tg.out.ok /\ tg.out.v = Canonical(x.t, x.v)
        /\ (x.t \in PointerTypes /\ x.v # <<>>) =>
             tg.out.ok /\ tg.out.v = Canonical(Pointee(x.t), x.v[1])
        /\ (x.t \in PointerTypes /\ x.v = <<>>) => tg.out.ok
        /\ x.t = "nil" => tg.out.ok /\ tg.out.v = "nil"
        /\ x.t \notin SupportedTypes =>
             ~tg.out.ok /\ tg.out.v = "" /\ tg.out.tags = EmptyTags

\* a tag set has been built from a flat list
Paired == tg.op \in {"AddPairs", "withTagFields"} /\ tg.done

\* the positions of the flat list that start a pair giving a tag
PairStarts ==
  { i \in DOMAIN tg.in.tags :
      /\ i % 2 = 1
      /\ i + 1 <= Len(tg.in.tags)
      /\ tg.op = "AddPairs" =>
           tg.in.tags[i].t = "string" /\ ToStringOk(tg.in.tags[i + 1]) }

\* the key and the value of the pair starting at position i
PairKey(i) == IF tg.op = "AddPairs" THEN tg.in.tags[i].v ELSE tg.in.tags[i]
PairValue(i) ==
  IF tg.op = "AddPairs" THEN toString(tg.in.tags[i + 1], StartValue) ELSE tg.in.tags[i + 1]

\* C23: building a tag set from a flat key/value list of odd length drops
\* the trailing unpaired element: the result holds exactly the pairs formed
\* by the elements before it (the last pair of a key giving its value), no
\* pair is made of the last element, and the call does not crash.
C23_OddTrailingDropped ==
  (Paired /\ Len(tg.in.tags) % 2 = 1) =>
    /\ DOMAIN tg.out = { PairKey(i) : i \in PairStarts }
    /\ \A i \in PairStarts :
         (\A j \in PairStarts : PairKey(j) = PairKey(i) => j <= i) =>
           tg.out[PairKey(i)] = PairValue(i)
    /\ Len(tg.in.tags) \notin PairStarts

\* AddPairs(nil, "a", "1", "b") gives {a: 1}
C23_Witness ==
  /\ Paired
  /\ tg.op = "AddPairs"
  /\ tg.in.tags = << StringArg("a"), StringArg("1"), StringArg("b") >>
  /\ tg.out = [k \in {"a"} |-> "1"]

\* C24: every mutation of the registry state (the sink reference and the
\* derived configuration) by Init, Disable or Close happens under the
\* exclusive lock, so a reporting call holding the shared lock sees neither
\* the sink nor the configuration change during its emission.
C24_NoChangeUnderSharedLock ==
  ReaderHolds => (client.kind = tg.in.client /\ config = tg.in.config)

C26_SpanEndedOnce ==
  \A c \in Ctxs :
    (Finished(c) /\ ctx[c].span /\ Len(ctx[c].stops) = 1) => ctx[c].spanEnds = 1

\* the func.stuck emissions of context c
StuckEmissions(c) == { i \in DOMAIN ctx[c].log : ctx[c].log[i].name = "func.stuck" }

InitErrors == {ErrUnsupportedAgent, ErrStatsdInit, ErrProfiler}

C29_SinkReferenceMonotone ==
  [][client.kind # "nil" => client'.kind # "nil"]_vars

C29_Witness ==
  /\ client.kind # "nil"
  /\ client.closed
  /\ lastInit.sinks # <<>>
  /\ usedClosed

\* call i has returned from its timing-start operation and its stop callback
\* has not been invoked
InFlight(i) == tg.op = "reportTiming" /\ tg.in.calls[i].pc = "inflight"

\* the registry operation in progress has yet to take clientMux.Lock()
LockWanted == admin.pc \in {"init_checked", "disable_checked"}

\* C30: between the return of a timing-start operation and the invocation
\* of its stop callback neither the caller nor its waiting watchdog holds the
\* registry lock, and an Init or Disable that wants exclusive access gets
\* past its locked section although the calls in flight never complete.
C30_ExclusiveAccessNotBlocked ==
  /\ [](\A i \in InFlightCalls : InFlight(i) =>
          /\ <<i, "caller">> \notin tg.in.readers
          /\ tg.in.calls[i].wd = "waiting" => <<i, "watchdog">> \notin tg.in.readers)
  /\ LockWanted ~> ~LockWanted

C30_Witness ==
  /\ \A i \in InFlightCalls :
       InFlight(i) /\ tg.in.calls[i].wd = "waiting" /\ tg.in.calls[i].sink = DatadogAgent
  /\ admin.pc = "disable_installed"
  /\ client.kind = "mock"

====
